---- MODULE Spec2Model ----
(***************************************************************************)
(* Model of text_analyzer/main.py: analyze_text (the loader and the        *)
(* statistics accumulator) and the command-line script that prints a      *)
(* subset of the statistics selected by four flags.                        *)
(*                                                                         *)
(* A text is a sequence of one-character strings.  The standard output is *)
(* the sequence of the strings handed to print(), one element per call.   *)
(***************************************************************************)
EXTENDS Integers, Sequences, FiniteSets, TLC

VARIABLES file_path, disk, args, stats, out, pc, it

vars == <<file_path, disk, args, stats, out, pc, it>>

(***************************************************************************)
(* Bounds and input sets                                                   *)
(***************************************************************************)
MaxLen == 4

NL == "\n"

Alphabet == {"a", "b", NL}

Paths == {"notes.txt", "data/log.txt"}

RECURSIVE TextsOfLen(_)
TextsOfLen(n) ==
    IF n = 0 THEN {<<>>}
    ELSE {Append(t, c) : t \in TextsOfLen(n - 1), c \in Alphabet}

HiWorld == <<"h", "i", NL, "w", "o", "r", "l", "d">>

TripleNewline == <<"a", NL, NL, NL, "b">>

DoubleNewline == <<"a", NL, NL, "b">>

Texts == UNION {TextsOfLen(n) : n \in 0..MaxLen}
            \cup {HiWorld, TripleNewline, DoubleNewline}

Flags == [count_lines : BOOLEAN, count_chars : BOOLEAN,
          count_empty_lines : BOOLEAN, count_freq : BOOLEAN]

\* What the file system holds at file_path: nothing, or a file with a text.
DiskStates == {[exists |-> FALSE, text |-> <<>>]}
                 \cup {[exists |-> TRUE, text |-> t] : t \in Texts}

(***************************************************************************)
(* Python values and built-ins                                             *)
(***************************************************************************)
None == [type |-> "None"]

Digits == <<"0", "1", "2", "3", "4", "5", "6", "7", "8", "9">>

\* str(n) of a non-negative int, as an f-string renders it.
RECURSIVE IntStr(_)
IntStr(n) ==
    IF n < 10 THEN Digits[n + 1]
    ELSE IntStr(n \div 10) \o Digits[(n % 10) + 1]

\* text[i : i + len(sub)] == sub
MatchAt(text, sub, i) ==
    /\ i + Len(sub) - 1 <= Len(text)
    /\ \A k \in 1..Len(sub) : text[i + k - 1] = sub[k]

\* str.find(sub, start): the lowest index >= i where sub occurs, 0 if none.
RECURSIVE Find(_, _, _)
Find(text, sub, i) ==
    IF i + Len(sub) - 1 > Len(text) THEN 0
    ELSE IF MatchAt(text, sub, i) THEN i
    ELSE Find(text, sub, i + 1)

\* Variant: the next search starts one character after the START of the
\* previous occurrence, so occurrences may overlap.
RECURSIVE CountFrom_Overlapping(_, _, _)
CountFrom_Overlapping(text, sub, i) ==
    LET p == Find(text, sub, i)
    IN  IF p = 0 THEN 0 ELSE 1 + CountFrom_Overlapping(text, sub, p + 1)

\* str.count(sub): occurrences found one after the other, each search
\* starting right after the end of the previous occurrence.
RECURSIVE CountFrom(_, _, _)
CountFrom(text, sub, i) ==
    LET p == Find(text, sub, i)
    IN  IF p = 0 THEN 0 ELSE 1 + CountFrom(text, sub, p + Len(sub))

StrCount(text, sub) == CountFrom(text, sub, 1)

\* Variant: the stored value is never read back (char_freq[char] = 0 + 1).
DictGet_AlwaysDefault(d, key, default) == default

\* dict.get(key, default) on a dict kept as the sequence of its items in
\* insertion order.
DictGet(d, key, default) ==
    IF \E i \in 1..Len(d) : d[i].k = key
    THEN LET i == CHOOSE j \in 1..Len(d) : d[j].k = key IN d[i].v
    ELSE default

\* Variant: a new key is put first instead of last.
DictSet_NewKeyFirst(d, key, value) ==
    IF \E i \in 1..Len(d) : d[i].k = key
    THEN [i \in 1..Len(d) |->
              IF d[i].k = key THEN [k |-> key, v |-> value] ELSE d[i]]
    ELSE <<[k |-> key, v |-> value]>> \o d

\* d[key] = value: an existing key keeps its position, a new key goes last.
DictSet(d, key, value) ==
    IF \E i \in 1..Len(d) : d[i].k = key
    THEN [i \in 1..Len(d) |->
              IF d[i].k = key THEN [k |-> key, v |-> value] ELSE d[i]]
    ELSE Append(d, [k |-> key, v |-> value])

(***************************************************************************)
(* analyze_text                                                            *)
(***************************************************************************)
NumChars(text) == Len(text)

\* Variant: counts the empty segments that text.split('\n') would yield.
NumEmptyLines_EmptySegments(text) ==
    Cardinality({i \in 0..Len(text) :
                    /\ i = 0 \/ text[i] = NL
                    /\ i = Len(text) \/ text[i + 1] = NL})

NumEmptyLines(text) == StrCount(text, <<NL, NL>>)

\* Variant: the "+ 1" is forgotten.
NumLines_NoPlusOne(text) == StrCount(text, <<NL>>)

NumLines(text) == StrCount(text, <<NL>>) + 1

\* for char in text: char_freq[char] = char_freq.get(char, 0) + 1
RECURSIVE CharFreq(_, _)
CharFreq(text, n) ==
    IF n = 0 THEN <<>>
    ELSE LET d == CharFreq(text, n - 1)
         IN  DictSet(d, text[n], DictGet(d, text[n], 0) + 1)

NotFoundLine(path) == "File not found: " \o path

analyze_text(d) ==
    IF ~d.exists THEN None
    ELSE [chars       |-> NumChars(d.text),
          lines       |-> NumLines(d.text),
          empty_lines |-> NumEmptyLines(d.text),
          freq        |-> CharFreq(d.text, Len(d.text))]

(***************************************************************************)
(* The lines the script prints                                             *)
(***************************************************************************)
\* Variant: the line count label is followed by the character count.
LinesLine_PrintsChars(s) == "Number of lines: " \o IntStr(s.chars)

LinesLine(s) == "Number of lines: " \o IntStr(s.lines)

CharsLine(s) == "Number of characters: " \o IntStr(s.chars)

EmptyLinesLine(s) == "Number of empty lines: " \o IntStr(s.empty_lines)

FreqHeader == "Character frequency:"

FreqLine(item) == "'" \o item.k \o "': " \o IntStr(item.v)

(***************************************************************************)
(* The script                                                              *)
(***************************************************************************)
Init ==
    /\ file_path \in Paths
    /\ disk \in DiskStates
    /\ args \in Flags
    /\ stats = None
    /\ out = <<>>
    /\ pc = "call_analyze_text"
    /\ it = 0

\* stats = analyze_text(args.file_path)
CallAnalyzeText ==
    /\ pc = "call_analyze_text"
    /\ stats' = analyze_text(disk)
    /\ out' = IF disk.exists THEN out ELSE Append(out, NotFoundLine(file_path))
    /\ pc' = "if_count_lines"
    /\ UNCHANGED <<file_path, disk, args, it>>

\* if args.count_lines: print(f"Number of lines: {stats['lines']}")
\* Subscripting None raises TypeError, which nothing catches.
IfCountLines ==
    /\ pc = "if_count_lines"
    /\ IF ~args.count_lines
       THEN pc' = "if_count_chars" /\ out' = out
       ELSE IF stats = None
       THEN pc' = "crashed" /\ out' = out
       ELSE pc' = "if_count_chars" /\ out' = Append(out, LinesLine(stats))
    /\ UNCHANGED <<file_path, disk, args, stats, it>>

\* Variant: the character count is gated by the wrong flag.
IfCountChars_GatedByLines ==
    /\ pc = "if_count_chars"
    /\ IF ~args.count_lines
       THEN pc' = "if_count_empty_lines" /\ out' = out
       ELSE IF stats = None
       THEN pc' = "crashed" /\ out' = out
       ELSE pc' = "if_count_empty_lines" /\ out' = Append(out, CharsLine(stats))
    /\ UNCHANGED <<file_path, disk, args, stats, it>>

\* if args.count_chars: print(f"Number of characters: {stats['chars']}")
IfCountChars ==
    /\ pc = "if_count_chars"
    /\ IF ~args.count_chars
       THEN pc' = "if_count_empty_lines" /\ out' = out
       ELSE IF stats = None
       THEN pc' = "crashed" /\ out' = out
       ELSE pc' = "if_count_empty_lines" /\ out' = Append(out, CharsLine(stats))
    /\ UNCHANGED <<file_path, disk, args, stats, it>>

\* if args.count_empty_lines: print(f"Number of empty lines: ...")
IfCountEmptyLines ==
    /\ pc = "if_count_empty_lines"
    /\ IF ~args.count_empty_lines
       THEN pc' = "if_count_freq" /\ out' = out
       ELSE IF stats = None
       THEN pc' = "crashed" /\ out' = out
       ELSE pc' = "if_count_freq" /\ out' = Append(out, EmptyLinesLine(stats))
    /\ UNCHANGED <<file_path, disk, args, stats, it>>

\* if args.count_freq: print("Character frequency:"), then the loop header
\* evaluates stats["freq"].items().  The header line is printed before the
\* subscript is evaluated.
IfCountFreq ==
    /\ pc = "if_count_freq"
    /\ IF ~args.count_freq
       THEN pc' = "if_not_any" /\ out' = out /\ it' = it
       ELSE /\ out' = Append(out, FreqHeader)
            /\ IF stats = None
               THEN pc' = "crashed" /\ it' = it
               ELSE pc' = "freq_loop" /\ it' = 1
    /\ UNCHANGED <<file_path, disk, args, stats>>

\* for char, freq in stats["freq"].items(): print(f"'{char}': {freq}")
FreqLoop ==
    /\ pc = "freq_loop"
    /\ IF it <= Len(stats.freq)
       THEN /\ out' = Append(out, FreqLine(stats.freq[it]))
            /\ it' = it + 1
            /\ pc' = pc
       ELSE /\ out' = out
            /\ it' = 0
            /\ pc' = "if_not_any"
    /\ UNCHANGED <<file_path, disk, args, stats>>

\* Variant: the default branch prints in the order of the flagged branches.
IfNotAny_LinesFirst ==
    /\ pc = "if_not_any"
    /\ IF args.count_lines \/ args.count_chars
             \/ args.count_empty_lines \/ args.count_freq
       THEN pc' = "done" /\ out' = out /\ it' = it
       ELSE IF stats = None
       THEN pc' = "crashed" /\ out' = out /\ it' = it
       ELSE /\ out' = out \o <<LinesLine(stats), CharsLine(stats),
                                EmptyLinesLine(stats), FreqHeader>>
            /\ pc' = "default_freq_loop"
            /\ it' = 1
    /\ UNCHANGED <<file_path, disk, args, stats>>

\* if not any([...]): the three counts, the header, then the loop header.
IfNotAny ==
    /\ pc = "if_not_any"
    /\ IF args.count_lines \/ args.count_chars
             \/ args.count_empty_lines \/ args.count_freq
       THEN pc' = "done" /\ out' = out /\ it' = it
       ELSE IF stats = None
       THEN pc' = "crashed" /\ out' = out /\ it' = it
       ELSE /\ out' = out \o <<CharsLine(stats), LinesLine(stats),
                                EmptyLinesLine(stats), FreqHeader>>
            /\ pc' = "default_freq_loop"
            /\ it' = 1
    /\ UNCHANGED <<file_path, disk, args, stats>>

\* the loop of the default branch
DefaultFreqLoop ==
    /\ pc = "default_freq_loop"
    /\ IF it <= Len(stats.freq)
       THEN /\ out' = Append(out, FreqLine(stats.freq[it]))
            /\ it' = it + 1
            /\ pc' = pc
       ELSE /\ out' = out
            /\ it' = 0
            /\ pc' = "done"
    /\ UNCHANGED <<file_path, disk, args, stats>>

Next ==
    \/ CallAnalyzeText
    \/ IfCountLines
    \/ IfCountChars
    \/ IfCountEmptyLines
    \/ IfCountFreq
    \/ FreqLoop
    \/ IfNotAny
    \/ DefaultFreqLoop

Spec == Init /\ [][Next]_vars

(***************************************************************************)
(* Reference definitions used by the properties                            *)
(***************************************************************************)
Range(f) == {f[i] : i \in DOMAIN f}

\* number of positions of seq holding x
Occurrences(seq, x) == Cardinality({i \in DOMAIN seq : seq[i] = x})

\* index of the first occurrence of c in text (c occurs in text)
FirstIdx(text, c) ==
    CHOOSE i \in DOMAIN text :
        text[i] = c /\ \A j \in 1..(i - 1) : text[j] # c

\* the distinct characters of text, ordered by first occurrence
DistinctInOrder(text) ==
    LET firsts == {i \in DOMAIN text : \A j \in 1..(i - 1) : text[j] # text[i]}
    IN  [n \in 1..Cardinality(firsts) |->
            text[CHOOSE i \in firsts :
                     Cardinality({j \in firsts : j <= i}) = n]]

RECURSIVE SumValues(_, _)
SumValues(d, n) == IF n = 0 THEN 0 ELSE d[n].v + SumValues(d, n - 1)

\* left-to-right scan for two newlines in a row; after a match the scan
\* resumes at the character after the second newline
RECURSIVE NonOverlapScan(_, _)
NonOverlapScan(text, i) ==
    IF i + 1 > Len(text) THEN 0
    ELSE IF text[i] = NL /\ text[i + 1] = NL
    THEN 1 + NonOverlapScan(text, i + 2)
    ELSE NonOverlapScan(text, i + 1)

\* the maximal runs of consecutive newlines, as <<first, last>> index pairs
NewlineRuns(text) ==
    {r \in (DOMAIN text) \X (DOMAIN text) :
        /\ r[1] <= r[2]
        /\ \A i \in r[1]..r[2] : text[i] = NL
        /\ r[1] = 1 \/ text[r[1] - 1] # NL
        /\ r[2] = Len(text) \/ text[r[2] + 1] # NL}

RECURSIVE SumHalfLengths(_)
SumHalfLengths(runs) ==
    IF runs = {} THEN 0
    ELSE LET r == CHOOSE x \in runs : TRUE
         IN  ((r[2] - r[1] + 1) \div 2) + SumHalfLengths(runs \ {r})

NoFlags ==
    ~(args.count_lines \/ args.count_chars
        \/ args.count_empty_lines \/ args.count_freq)

OnlyCharsAndLines ==
    args = [count_lines |-> TRUE, count_chars |-> TRUE,
            count_empty_lines |-> FALSE, count_freq |-> FALSE]

Returned == pc # "call_analyze_text" /\ disk.exists

(***************************************************************************)
(* Properties                                                              *)
(***************************************************************************)

\* C1: when file_path does not exist, whatever the flags, the run ends
\* normally after the 'File not found' message: it never reaches the state
\* of an uncaught exception.
C1_MissingFileTerminatesNormally ==
    ~disk.exists => pc # "crashed"

\* C2: when file_path does not exist, whatever the flags, the output is
\* exactly the one line 'File not found: <file_path>'.
C2_MissingFileOnlyMessage ==
    (~disk.exists /\ pc # "call_analyze_text")
        => out = <<NotFoundLine(file_path)>>

\* C3 as stated: with exactly --count-chars and --count-lines on an existing
\* file the output is the character count line, then the line count line.
C3_CharsThenLines ==
    (disk.exists /\ OnlyCharsAndLines /\ pc = "done")
        => /\ out = <<CharsLine(stats), LinesLine(stats)>>
           /\ disk.text = HiWorld
                => out = <<"Number of characters: 8", "Number of lines: 2">>

\* C3 amended: with exactly --count-chars and --count-lines on an existing
\* file the output is two lines, the line count line first and the character
\* count line second.
C3_LinesThenChars ==
    (disk.exists /\ OnlyCharsAndLines /\ pc = "done")
        => /\ out = <<"Number of lines: "
                          \o IntStr(Occurrences(disk.text, NL) + 1),
                      "Number of characters: " \o IntStr(Len(disk.text))>>
           /\ disk.text = HiWorld
                => out = <<"Number of lines: 2", "Number of characters: 8">>

C3_Witness ==
    /\ pc = "done" /\ disk.exists /\ disk.text = HiWorld
    /\ OnlyCharsAndLines /\ Len(out) = 2

\* C4: on an existing file with no flag the four sections are printed once
\* each in the order characters, lines, empty lines, frequency table (the
\* header, then one entry per distinct character).
C4_DefaultPrintsAllFourInOrder ==
    (disk.exists /\ NoFlags /\ pc = "done")
        => /\ Len(out) = 4 + Cardinality(Range(disk.text))
           /\ out[1] = CharsLine(stats)
           /\ out[2] = LinesLine(stats)
           /\ out[3] = EmptyLinesLine(stats)
           /\ out[4] = FreqHeader
           /\ \A i \in 1..Len(stats.freq) : out[4 + i] = FreqLine(stats.freq[i])
           /\ \A l \in {CharsLine(stats), LinesLine(stats),
                        EmptyLinesLine(stats), FreqHeader} :
                  Occurrences(out, l) = 1

C4_Witness ==
    /\ pc = "done" /\ disk.exists /\ NoFlags
    /\ Len(out) = 7 /\ out[4] = FreqHeader

\* C5: on an existing file with at least one flag, each section is printed
\* exactly once when its flag is set and not at all when it is unset,
\* whatever the other flags are.
C5_EachFlagGatesItsSection ==
    (disk.exists /\ ~NoFlags /\ pc = "done")
        => /\ Occurrences(out, LinesLine(stats))
                 = (IF args.count_lines THEN 1 ELSE 0)
           /\ Occurrences(out, CharsLine(stats))
                 = (IF args.count_chars THEN 1 ELSE 0)
           /\ Occurrences(out, EmptyLinesLine(stats))
                 = (IF args.count_empty_lines THEN 1 ELSE 0)
           /\ Occurrences(out, FreqHeader)
                 = (IF args.count_freq THEN 1 ELSE 0)
           /\ \A i \in 1..Len(stats.freq) :
                  Occurrences(out, FreqLine(stats.freq[i]))
                      = (IF args.count_freq THEN 1 ELSE 0)
           /\ Len(out) = (IF args.count_lines THEN 1 ELSE 0)
                           + (IF args.count_chars THEN 1 ELSE 0)
                           + (IF args.count_empty_lines THEN 1 ELSE 0)
                           + (IF args.count_freq
                                 THEN 1 + Cardinality(Range(disk.text))
                                 ELSE 0)

C5_Witness ==
    /\ pc = "done" /\ disk.exists
    /\ args.count_chars /\ ~args.count_lines
    /\ ~args.count_empty_lines /\ args.count_freq
    /\ Len(out) = 4

\* C6: the empty line count equals the result of a left-to-right scan for
\* two newlines in a row that resumes after the second newline of each
\* match; "a\n\n\nb" and "a\n\nb" both give 1.
C6_EmptyLinesNonOverlapping ==
    Returned
        => /\ stats.empty_lines = NonOverlapScan(disk.text, 1)
           /\ disk.text = TripleNewline => stats.empty_lines = 1
           /\ disk.text = DoubleNewline => stats.empty_lines = 1

C6_Witness ==
    Returned /\ disk.text = TripleNewline /\ stats.empty_lines = 1

\* C7: the character count equals the sum of the values of the frequency
\* mapping, and both equal the number of characters of the text.
C7_CharsEqualsFrequencySum ==
    Returned
        => /\ stats.chars = SumValues(stats.freq, Len(stats.freq))
           /\ stats.chars = Len(disk.text)

C7_Witness ==
    Returned /\ stats.chars = 4 /\ Len(stats.freq) = 2

\* C8: the line count is the number of newline characters plus one, so it
\* is at least one; the empty text gives 0 characters, 1 line, 0 empty
\* lines and an empty frequency mapping.
C8_LineCountIsNewlinesPlusOne ==
    Returned
        => /\ stats.lines = Occurrences(disk.text, NL) + 1
           /\ stats.lines >= 1
           /\ disk.text = <<>>
                => /\ stats.chars = 0
                   /\ stats.lines = 1
                   /\ stats.empty_lines = 0
                   /\ stats.freq = <<>>

C8_Witness ==
    Returned /\ stats.lines = 4 /\ stats.chars = 3

\* C9: the keys of the frequency mapping are exactly the distinct
\* characters of the text, each mapped to its number of occurrences (at
\* least 1), in order of first occurrence; the frequency table is printed
\* in that order.
C9_FrequencyKeysCountsAndOrder ==
    Returned
        => LET f == stats.freq
               t == disk.text
           IN  /\ {f[i].k : i \in 1..Len(f)} = Range(t)
               /\ Len(f) = Cardinality(Range(t))
               /\ \A i \in 1..Len(f) :
                      f[i].v = Occurrences(t, f[i].k) /\ f[i].v >= 1
               /\ \A i, j \in 1..Len(f) :
                      i < j => FirstIdx(t, f[i].k) < FirstIdx(t, f[j].k)
               /\ (pc = "done" /\ (args.count_freq \/ NoFlags))
                      => /\ Len(out) >= Len(f) + 1
                         /\ out[Len(out) - Len(f)] = FreqHeader
                         /\ \A i \in 1..Len(f) :
                                out[Len(out) - Len(f) + i]
                                  = "'" \o DistinctInOrder(t)[i] \o "': "
                                      \o IntStr(Occurrences(t,
                                                    DistinctInOrder(t)[i]))

C9_Witness ==
    /\ pc = "done" /\ disk.exists /\ args.count_freq
    /\ Len(stats.freq) = 3
    /\ stats.freq[1] = [k |-> "b", v |-> 2]
    /\ out[Len(out)] = "'a': 1"

\* C10: the empty line count is the sum over the maximal runs of k
\* consecutive newlines of floor(k / 2); hence twice the empty line count
\* is at most the line count minus one.
C10_EmptyLinesSumOfHalfRuns ==
    Returned
        => /\ stats.empty_lines = SumHalfLengths(NewlineRuns(disk.text))
           /\ 2 * stats.empty_lines <= stats.lines - 1

C10_Witness ==
    Returned /\ stats.empty_lines = 2 /\ stats.lines = 5

====
